---------------------------- MODULE Spec2Model ----------------------------
(***************************************************************************)
(* Model of linkcheck/htmlutil/linkparse.py: the tag handlers that a       *)
(* tokenizer drives once per opened tag.                                   *)
(*                                                                         *)
(*   MetaRobotsFinder  reads the robots meta policy and stops the parse.   *)
(*   LinkFinder        reports the URLs of a tag to a callback.            *)
(*                                                                         *)
(* Representation.  A text (Python str) is a sequence of one-character     *)
(* strings, so that split, lower, rstrip and the regular expressions are   *)
(* computed character by character.  Python's None is the one-element      *)
(* sequence None, whose element is no character.  Tag and attribute names  *)
(* are only ever compared and sorted by the code, so they are TLA+         *)
(* strings; attrs is a function from the attribute names present on the    *)
(* tag to their values (a text, or None for an attribute without value).   *)
(***************************************************************************)
EXTENDS Integers, Sequences, FiniteSets, TLC

VARIABLES
    follow,          \* MetaRobotsFinder.follow
    index,           \* MetaRobotsFinder.index
    robots_state,    \* how the robots scan stands: "running", "StopParse" or the exception raised
    doc,             \* the tag events delivered to the MetaRobotsFinder so far, in order
    tags,            \* LinkFinder: the rule table it was built with
    ignore_classes,  \* LinkFinder.ignore_classes
    base_ref,        \* LinkFinder.base_ref
    prev_base_ref,   \* history: base_ref as it was when the last event arrived
    base_hrefs,      \* history: attrs.get("href", u'') of every base tag delivered, in order
    event,           \* the last tag event delivered to the LinkFinder
    calls,           \* the callback calls start_element made for that event, in order
    error,           \* "" or the exception start_element raised for that event
    nevents          \* number of events delivered to the LinkFinder

vars == <<follow, index, robots_state, doc, tags, ignore_classes, base_ref,
          prev_base_ref, base_hrefs, event, calls, error, nevents>>

robots_vars == <<follow, index, robots_state, doc>>
link_vars == <<tags, ignore_classes, base_ref, prev_base_ref, base_hrefs,
               event, calls, error, nevents>>

(***************************************************************************)
(* Bounds.                                                                 *)
(***************************************************************************)
\* events of one document delivered to a MetaRobotsFinder
MaxDoc == 3
\* events of one document delivered to a LinkFinder
MaxEvents == 3

(***************************************************************************)
(* Python values and the str methods the module uses.                      *)
(***************************************************************************)
None == <<"<None>">>
Empty == <<>>

\* not x, for x a str or None
Falsy(x) == x = Empty \/ x = None

\* dict.get(key, default)
Get(attrs, key, default) == IF key \in DOMAIN attrs THEN attrs[key] ELSE default

LowerChar(c) ==
    CASE c = "A" -> "a" [] c = "B" -> "b" [] c = "C" -> "c" [] c = "D" -> "d"
      [] c = "E" -> "e" [] c = "F" -> "f" [] c = "G" -> "g" [] c = "H" -> "h"
      [] c = "I" -> "i" [] c = "J" -> "j" [] c = "K" -> "k" [] c = "L" -> "l"
      [] c = "M" -> "m" [] c = "N" -> "n" [] c = "O" -> "o" [] c = "P" -> "p"
      [] c = "Q" -> "q" [] c = "R" -> "r" [] c = "S" -> "s" [] c = "T" -> "t"
      [] c = "U" -> "u" [] c = "V" -> "v" [] c = "W" -> "w" [] c = "X" -> "x"
      [] c = "Y" -> "y" [] c = "Z" -> "z" [] OTHER -> c

\* str.lower()
Lower(s) == [i \in 1..Len(s) |-> LowerChar(s[i])]

\* str.isspace() of one character, and \s of the regular expressions
IsSpace(c) == c = " "

IsDigit(c) == c \in {"0", "1", "2", "3", "4", "5", "6", "7", "8", "9"}

RECURSIVE SplitFrom(_, _, _, _)
SplitFrom(s, sep, i, cur) ==
    IF i > Len(s) THEN <<cur>>
    ELSE IF s[i] = sep THEN <<cur>> \o SplitFrom(s, sep, i + 1, Empty)
    ELSE SplitFrom(s, sep, i + 1, Append(cur, s[i]))

\* str.split(sep) for a one-character sep: every separator ends a token
Split(s, sep) == SplitFrom(s, sep, 1, Empty)

RECURSIVE SplitSpaceFrom(_, _, _)
SplitSpaceFrom(s, i, cur) ==
    IF i > Len(s) THEN (IF cur = Empty THEN <<>> ELSE <<cur>>)
    ELSE IF IsSpace(s[i])
         THEN (IF cur = Empty THEN <<>> ELSE <<cur>>) \o SplitSpaceFrom(s, i + 1, Empty)
         ELSE SplitSpaceFrom(s, i + 1, Append(cur, s[i]))

\* str.split() without argument: runs of whitespace separate, no empty token
SplitSpace(s) == SplitSpaceFrom(s, 1, Empty)

\* c in s, for a one-character c
Contains(s, c) == \E i \in 1..Len(s) : s[i] = c

\* s.split(c, 1)[1] when c occurs in s: the text after the first c
AfterFirst(s, c) ==
    LET i == CHOOSE k \in 1..Len(s) : s[k] = c /\ \A j \in 1..(k - 1) : s[j] # c
    IN  SubSeq(s, i + 1, Len(s))

RECURSIVE RStrip(_, _)
\* str.rstrip(c): every trailing c is removed
RStrip(s, c) ==
    IF s # Empty /\ s[Len(s)] = c THEN RStrip(SubSeq(s, 1, Len(s) - 1), c) ELSE s

\* x in list
InSeq(x, seq) == \E i \in 1..Len(seq) : seq[i] = x

(***************************************************************************)
(* MetaRobotsFinder                                                        *)
(***************************************************************************)
\* the result of MetaRobotsFinder.start_element on self = [follow, index]:
\* the fields afterwards and how the call ended ("" is a normal return)
RobotsStartElement(self, tag, attrs) ==
    IF tag = "meta" /\ Get(attrs, "name", None) = <<"r","o","b","o","t","s">>
    THEN LET content == Get(attrs, "content", Empty)
         IN  IF content = None
             THEN [follow |-> self.follow, index |-> self.index,
                   raised |-> "AttributeError"]
             ELSE LET val == Split(Lower(content), ",")
                  IN  [follow |-> ~InSeq(<<"n","o","f","o","l","l","o","w">>, val),
                       index |-> ~InSeq(<<"n","o","i","n","d","e","x">>, val),
                       raised |-> "StopParse"]
    ELSE IF tag = "body"
    THEN [follow |-> self.follow, index |-> self.index, raised |-> "StopParse"]
    ELSE [follow |-> self.follow, index |-> self.index, raised |-> ""]

\* the values a tokenizer hands over for content=... of a robots meta tag
RobotsContents ==
    { <<"n","o","i","n","d","e","x",","," ","n","o","f","o","l","l","o","w">>, <<"n","o","i","n","d","e","x",",","n","o","f","o","l","l","o","w">>, <<"N","O","I","N","D","E","X",",","N","O","F","O","L","L","O","W">>,
      <<"n","o","f","o","l","l","o","w">>, <<"n","o","i","n","d","e","x">>, <<"N","o","F","o","l","l","o","w">>, <<"i","n","d","e","x",",","f","o","l","l","o","w">>, <<"a","l","l">>,
      <<"n","o","f","o","l","l","o","w",","," ","n","o","i","n","d","e","x">>, <<"n","o","n","e">>, Empty, None }

\* the tag events of a document head and body that the robots scan can meet
RobotsEvents ==
    {[tag |-> "meta", attrs |-> ("name" :> <<"r","o","b","o","t","s">> @@ "content" :> c)] : c \in RobotsContents}
    \cup {[tag |-> "meta", attrs |-> ("name" :> <<"r","o","b","o","t","s">>)]}
    \cup {[tag |-> "meta", attrs |-> ("name" :> n @@ "content" :> <<"n","o","i","n","d","e","x",",","n","o","f","o","l","l","o","w">>)]
            : n \in {<<"R","O","B","O","T","S">>, <<"d","e","s","c","r","i","p","t","i","o","n">>, None}}
    \cup {[tag |-> "meta", attrs |-> ("content" :> <<"n","o","f","o","l","l","o","w">>)]}
    \cup {[tag |-> t, attrs |-> <<>>] : t \in {"html", "head", "title", "link", "body"}}

InitRobots ==
    /\ follow = TRUE
    /\ index = TRUE
    /\ robots_state = "running"
    /\ doc = <<>>

\* the tokenizer delivers the next tag event; an exception (StopParse
\* included) ends the parse, so nothing is delivered after one
RobotsDeliver ==
    /\ robots_state = "running"
    /\ Len(doc) < MaxDoc
    /\ \E e \in RobotsEvents :
         LET r == RobotsStartElement([follow |-> follow, index |-> index], e.tag, e.attrs)
         IN  /\ follow' = r.follow
             /\ index' = r.index
             /\ robots_state' = (IF r.raised = "" THEN "running" ELSE r.raised)
             /\ doc' = Append(doc, e)
    /\ UNCHANGED link_vars

(***************************************************************************)
(* Rule tables                                                             *)
(***************************************************************************)
\* the key None of a rule table: the attributes of every tag
NoneKey == "<None>"

LinkTags ==
    "a" :> {"href"} @@
    "applet" :> {"archive", "src"} @@
    "area" :> {"href"} @@
    "audio" :> {"src"} @@
    "bgsound" :> {"src"} @@
    "blockquote" :> {"cite"} @@
    "body" :> {"background"} @@
    "button" :> {"formaction"} @@
    "del" :> {"cite"} @@
    "embed" :> {"pluginspage", "src"} @@
    "form" :> {"action"} @@
    "frame" :> {"src", "longdesc"} @@
    "head" :> {"profile"} @@
    "html" :> {"manifest"} @@
    "iframe" :> {"src", "longdesc"} @@
    "ilayer" :> {"background"} @@
    "img" :> {"src", "lowsrc", "longdesc", "usemap", "srcset"} @@
    "input" :> {"src", "usemap", "formaction"} @@
    "ins" :> {"cite"} @@
    "isindex" :> {"action"} @@
    "layer" :> {"background", "src"} @@
    "link" :> {"href"} @@
    "meta" :> {"content", "href"} @@
    "object" :> {"classid", "data", "archive", "usemap", "codebase"} @@
    "q" :> {"cite"} @@
    "script" :> {"src"} @@
    "source" :> {"src"} @@
    "table" :> {"background"} @@
    "td" :> {"background"} @@
    "th" :> {"background"} @@
    "tr" :> {"background"} @@
    "track" :> {"src"} @@
    "video" :> {"src"} @@
    "xmp" :> {"href"} @@
    NoneKey :> {"style", "itemtype"}

AnchorTags ==
    "a" :> {"name"} @@
    NoneKey :> {"id"}

WmlTags ==
    "a" :> {"href"} @@
    "go" :> {"href"} @@
    "img" :> {"src"}

\* the tags argument of LinkFinder.__init__, by name
RuleTable(t) ==
    CASE t = "LinkTags" -> LinkTags
      [] t = "AnchorTags" -> AnchorTags
      [] t = "WmlTags" -> WmlTags

\* LinkFinder.universal_attrs
UniversalAttrs(t) == Get(RuleTable(t), NoneKey, {})

\* LinkFinder.tags as __init__ builds it from table t: every entry of the
\* table with the universal attributes added
SelfTags(t) == [tag \in DOMAIN RuleTable(t) |-> RuleTable(t)[tag] \cup UniversalAttrs(t)]

\* LinkFinder.tags of the LinkFinder built with each table (built once, in __init__)
BuiltTags == [t \in {"LinkTags", "AnchorTags", "WmlTags"} |-> SelfTags(t)]

\* self.tags.get(tag, self.universal_attrs)
TagAttrs(t, tag) == Get(BuiltTags[t], tag, UniversalAttrs(t))

\* the attribute names of the tables and of the events, in the order of sorted()
AttrOrder ==
    << "action", "alt", "archive", "background", "cite", "class", "classid",
       "codebase", "content", "data", "formaction", "href", "http-equiv", "id",
       "itemtype", "longdesc", "lowsrc", "manifest", "method", "name",
       "pluginspage", "profile", "rel", "scheme", "src", "srcset", "style",
       "title", "usemap" >>

\* sorted(tagattrs.intersection(attrs))
SortedAttrs(tagattrs, attrs) ==
    SelectSeq(AttrOrder, LAMBDA a : a \in tagattrs /\ a \in DOMAIN attrs)

(***************************************************************************)
(* Regular expressions                                                     *)
(***************************************************************************)
RECURSIVE SkipSpace(_, _)
\* \s* from position i: the position after the run of whitespace
SkipSpace(s, i) == IF i <= Len(s) /\ IsSpace(s[i]) THEN SkipSpace(s, i + 1) ELSE i

RECURSIVE SkipDigits(_, _)
\* \d* from position i
SkipDigits(s, i) == IF i <= Len(s) /\ IsDigit(s[i]) THEN SkipDigits(s, i + 1) ELSE i

\* refresh_re.match(value): None, or the group "url" of the match of
\* (?i)^\d+;\s*url=(?P<url>.+)$
RefreshMatch(value) ==
    LET d == SkipDigits(value, 1)
        w == SkipSpace(value, d + 1)
    IN  IF /\ d > 1
           /\ d <= Len(value) /\ value[d] = ";"
           /\ w + 4 <= Len(value)
           /\ Lower(SubSeq(value, w, w + 3)) = <<"u","r","l","=">>
        THEN SubSeq(value, w + 4, Len(value))
        ELSE None

RECURSIVE SkipToken(_, _)
\* [^\)\s]* from position i
SkipToken(s, i) ==
    IF i <= Len(s) /\ s[i] # ")" /\ ~IsSpace(s[i]) THEN SkipToken(s, i + 1) ELSE i

RECURSIVE SkipNot(_, _, _)
\* [^q]* from position i
SkipNot(s, q, i) == IF i <= Len(s) /\ s[i] # q THEN SkipNot(s, q, i + 1) ELSE i

\* q[^q]+q\s*\) at position j: 0, or the position after the match
QuotedAt(s, q, j) ==
    IF j <= Len(s) /\ s[j] = q
    THEN LET k == SkipNot(s, q, j + 1)
             m == SkipSpace(s, k + 1)
         IN  IF k >= j + 2 /\ k <= Len(s) /\ m <= Len(s) /\ s[m] = ")"
             THEN m + 1 ELSE 0
    ELSE 0

\* css_url_re matched at position i:  url\(\s*(?P<url>'[^']+'|"[^"]+"|[^\)\s]+)\s*\)
\* [end |-> 0] when it does not match there, else the group and the end
CssMatchAt(s, i) ==
    IF i + 3 <= Len(s) /\ SubSeq(s, i, i + 3) = <<"u","r","l","(">>
    THEN LET j == SkipSpace(s, i + 4)
             q1 == QuotedAt(s, "'", j)
             q2 == QuotedAt(s, "\"", j)
             r == SkipToken(s, j)
             m == SkipSpace(s, r)
         IN  IF q1 > 0 THEN [end |-> q1, url |-> SubSeq(s, j, SkipNot(s, "'", j + 1))]
             ELSE IF q2 > 0 THEN [end |-> q2, url |-> SubSeq(s, j, SkipNot(s, "\"", j + 1))]
             ELSE IF r > j /\ m <= Len(s) /\ s[m] = ")"
                  THEN [end |-> m + 1, url |-> SubSeq(s, j, r - 1)]
                  ELSE [end |-> 0, url |-> Empty]
    ELSE [end |-> 0, url |-> Empty]

RECURSIVE CssFindFrom(_, _)
CssFindFrom(s, i) ==
    IF i > Len(s) THEN <<>>
    ELSE LET mo == CssMatchAt(s, i)
         IN  IF mo.end > 0 THEN <<mo.url>> \o CssFindFrom(s, mo.end)
             ELSE CssFindFrom(s, i + 1)

\* [mo.group("url") for mo in css_url_re.finditer(value)]
CssFindIter(value) == CssFindFrom(value, 1)

\* strformat.unquote(s, matching=True): a pair of equal quotes around s is removed
Unquote(s) ==
    IF Len(s) >= 2 /\ s[1] \in {"'", "\""} /\ s[1] = s[Len(s)]
    THEN SubSeq(s, 2, Len(s) - 1) ELSE s

(***************************************************************************)
(* Classification predicates.  Each returns [res, raised]: the boolean     *)
(* returned, or the exception raised ("" when none).                       *)
(***************************************************************************)
\* is_meta_url without the test of http-equiv and scheme: every content passes.
\* A faulty variant; C5 must tell it from is_meta_url.
is_meta_url_AnyContent(attr, attrs) ==
    IF attr = "content"
    THEN [res |-> TRUE, raised |-> ""]
    ELSE IF attr = "href"
    THEN LET rel == Get(attrs, "rel", Empty)
         IN  IF rel = None
             THEN [res |-> FALSE, raised |-> "AttributeError"]
             ELSE [res |-> Lower(rel) \in {<<"s","h","o","r","t","c","u","t"," ","i","c","o","n">>, <<"i","c","o","n">>}, raised |-> ""]
    ELSE [res |-> FALSE, raised |-> ""]

is_meta_url(attr, attrs) ==
    IF attr = "content"
    THEN LET equiv == Get(attrs, "http-equiv", Empty)
             scheme == Get(attrs, "scheme", Empty)
         IN  IF equiv = None \/ scheme = None
             THEN [res |-> FALSE, raised |-> "AttributeError"]
             ELSE [res |-> Lower(equiv) = <<"r","e","f","r","e","s","h">> \/ Lower(scheme) = <<"d","c","t","e","r","m","s",".","u","r","i">>,
                   raised |-> ""]
    ELSE IF attr = "href"
    THEN LET rel == Get(attrs, "rel", Empty)
         IN  IF rel = None
             THEN [res |-> FALSE, raised |-> "AttributeError"]
             ELSE [res |-> Lower(rel) \in {<<"s","h","o","r","t","c","u","t"," ","i","c","o","n">>, <<"i","c","o","n">>}, raised |-> ""]
    ELSE [res |-> FALSE, raised |-> ""]

is_form_get(attr, attrs) ==
    IF attr = "action"
    THEN LET method == Get(attrs, "method", Empty)
         IN  IF method = None
             THEN [res |-> FALSE, raised |-> "AttributeError"]
             ELSE [res |-> Lower(method) # <<"p","o","s","t">>, raised |-> ""]
    ELSE [res |-> FALSE, raised |-> ""]

(***************************************************************************)
(* LinkFinder                                                              *)
(***************************************************************************)
\* get_link_name that never looks at the element text.
\* A faulty variant; C9 must tell it from get_link_name.
get_link_name_IgnoreText(tag, attrs, attr, name) ==
    IF tag = "a" /\ attr = "href"
    THEN Get(attrs, "title", Empty)
    ELSE IF tag = "img"
    THEN (IF Falsy(Get(attrs, "alt", Empty))
          THEN Get(attrs, "title", Empty)
          ELSE Get(attrs, "alt", Empty))
    ELSE Empty

\* LinkFinder.get_link_name(tag, attrs, attr, name)
get_link_name(tag, attrs, attr, name) ==
    IF tag = "a" /\ attr = "href"
    THEN (IF Falsy(name) THEN Get(attrs, "title", Empty) ELSE name)
    ELSE IF tag = "img"
    THEN (IF Falsy(Get(attrs, "alt", Empty))
          THEN Get(attrs, "title", Empty)
          ELSE Get(attrs, "alt", Empty))
    ELSE Empty

\* LinkFinder.found_url: one call of the callback.  The field attr is
\* history (the attribute the URL was found in), the callback is not given it.
found_url(url, name, base, lineno, column, attr) ==
    [url |-> url, line |-> lineno, column |-> column, name |-> name, base |-> base,
     attr |-> attr]

RECURSIVE SrcsetFrom(_, _, _, _, _, _, _)
\* the loop over value.split(u',') of the srcset branch, from candidate i on
SrcsetFrom(cands, i, name, base, lineno, column, attr) ==
    IF i > Len(cands) THEN [calls |-> <<>>, raised |-> ""]
    ELSE IF SplitSpace(cands[i]) = <<>>
    THEN [calls |-> <<>>, raised |-> "IndexError"]
    ELSE LET rest == SrcsetFrom(cands, i + 1, name, base, lineno, column, attr)
         IN  [calls |-> <<found_url(SplitSpace(cands[i])[1], name, base, lineno, column, attr)>>
                          \o rest.calls,
              raised |-> rest.raised]

\* LinkFinder.parse_tag: the callback calls made, in order, and the
\* exception raised after them ("" when none)
parse_tag(tag, attr, value, name, base, lineno, column) ==
    IF name = None \/ base = None
    THEN [calls |-> <<>>, raised |-> "AssertionError"]
    ELSE IF tag = "meta" /\ ~Falsy(value)
    THEN (IF RefreshMatch(value) # None
          THEN [calls |-> <<found_url(RefreshMatch(value), name, base, lineno, column, attr)>>,
                raised |-> ""]
          ELSE IF attr # "content"
          THEN [calls |-> <<found_url(value, name, base, lineno, column, attr)>>, raised |-> ""]
          ELSE [calls |-> <<>>, raised |-> ""])
    ELSE IF attr = "style" /\ ~Falsy(value)
    THEN LET urls == CssFindIter(value)
         IN  [calls |-> [i \in 1..Len(urls) |->
                           found_url(Unquote(urls[i]), name, base, lineno, column, attr)],
              raised |-> ""]
    ELSE IF attr = "archive"
    THEN (IF value = None
          THEN [calls |-> <<>>, raised |-> "AttributeError"]
          ELSE LET urls == Split(value, ",")
               IN  [calls |-> [i \in 1..Len(urls) |->
                                 found_url(urls[i], name, base, lineno, column, attr)],
                    raised |-> ""])
    ELSE IF attr = "srcset"
    THEN (IF value = None
          THEN [calls |-> <<>>, raised |-> "AttributeError"]
          ELSE SrcsetFrom(Split(value, ","), 1, name, base, lineno, column, attr))
    ELSE [calls |-> <<found_url(value, name, base, lineno, column, attr)>>, raised |-> ""]

\* the rewrite without the removal of the scheme.
\* A faulty variant; C7 must tell it from DnsPrefetch.
DnsPrefetch_KeepScheme(tag, attrs, value) ==
    IF tag = "link" /\ Get(attrs, "rel", None) = <<"d","n","s","-","p","r","e","f","e","t","c","h">>
    THEN (IF value = None
          THEN [value |-> value, raised |-> "TypeError"]
          ELSE [value |-> <<"d","n","s",":">> \o RStrip(value, "/"), raised |-> ""])
    ELSE [value |-> value, raised |-> ""]

\* the rewrite of a dns-prefetch link's value: [value, raised]
DnsPrefetch(tag, attrs, value) ==
    IF tag = "link" /\ Get(attrs, "rel", None) = <<"d","n","s","-","p","r","e","f","e","t","c","h">>
    THEN (IF value = None
          THEN [value |-> value, raised |-> "TypeError"]
          ELSE [value |-> <<"d","n","s",":">> \o
                          RStrip(IF Contains(value, ":") THEN AfterFirst(value, ":") ELSE value,
                                 "/"),
                raised |-> ""])
    ELSE [value |-> value, raised |-> ""]

\* the base without the fallback for an empty codebase.
\* A faulty variant; C10 must tell it from LinkBase.
LinkBase_AnyCodebase(tag, attrs, self_base_ref) ==
    IF tag = "applet" /\ "codebase" \in DOMAIN attrs THEN attrs["codebase"] ELSE self_base_ref

\* base of the loop body: the applet's codebase, else the document base
LinkBase(tag, attrs, self_base_ref) ==
    LET base == IF tag = "applet" THEN Get(attrs, "codebase", Empty) ELSE Empty
    IN  IF Falsy(base) THEN self_base_ref ELSE base

\* one pass of the loop body of start_element, for attribute attr
AttrStep(self_base_ref, tag, attrs, element_text, lineno, column, attr) ==
    LET mu == is_meta_url(attr, attrs)
        fg == is_form_get(attr, attrs)
        name == get_link_name(tag, attrs, attr, element_text)
        base == LinkBase(tag, attrs, self_base_ref)
        dns == DnsPrefetch(tag, attrs, Get(attrs, attr, None))
    IN  IF tag = "meta" /\ mu.raised # "" THEN [calls |-> <<>>, raised |-> mu.raised]
        ELSE IF tag = "meta" /\ ~mu.res THEN [calls |-> <<>>, raised |-> ""]
        ELSE IF tag = "form" /\ fg.raised # "" THEN [calls |-> <<>>, raised |-> fg.raised]
        ELSE IF tag = "form" /\ ~fg.res THEN [calls |-> <<>>, raised |-> ""]
        ELSE IF dns.raised # "" THEN [calls |-> <<>>, raised |-> dns.raised]
        ELSE parse_tag(tag, attr, dns.value, name, base, lineno, column)

RECURSIVE AttrLoop(_, _, _, _, _, _, _, _)
\* the for loop of start_element over the sorted attributes, from the i-th on
AttrLoop(self_base_ref, tag, attrs, element_text, lineno, column, sorted, i) ==
    IF i > Len(sorted) THEN [calls |-> <<>>, raised |-> ""]
    ELSE LET one == AttrStep(self_base_ref, tag, attrs, element_text, lineno, column, sorted[i])
         IN  IF one.raised # "" THEN one
             ELSE LET rest == AttrLoop(self_base_ref, tag, attrs, element_text, lineno,
                                       column, sorted, i + 1)
                  IN  [calls |-> one.calls \o rest.calls, raised |-> rest.raised]

\* the base tag's effect without the test "not self.base_ref": every base tag overwrites.
\* A faulty variant; C1 must tell it from NewBaseRef.
NewBaseRef_Overwrite(self_base_ref, tag, attrs) ==
    IF tag = "base" THEN Get(attrs, "href", Empty) ELSE self_base_ref

\* the base tag's effect on self.base_ref
NewBaseRef(self_base_ref, tag, attrs) ==
    IF tag = "base" /\ Falsy(self_base_ref) THEN Get(attrs, "href", Empty) ELSE self_base_ref

\* the tag is an anchor of an ignored class
IgnoredClass(self_ignore_classes, tag, attrs) ==
    /\ tag = "a"
    /\ ~Falsy(Get(attrs, "class", None))
    /\ self_ignore_classes # {}
    /\ \E i \in 1..Len(SplitSpace(attrs["class"])) :
          SplitSpace(attrs["class"])[i] \in self_ignore_classes

\* LinkFinder.start_element on self = [tags, ignore_classes, base_ref]:
\* base_ref afterwards, the callback calls made and the exception raised
StartElement(self, tag, attrs, element_text, lineno, column) ==
    LET b == NewBaseRef(self.base_ref, tag, attrs)
    IN  IF IgnoredClass(self.ignore_classes, tag, attrs)
        THEN [base_ref |-> b, calls |-> <<>>, raised |-> ""]
        ELSE LET r == AttrLoop(b, tag, attrs, element_text, lineno, column,
                               SortedAttrs(TagAttrs(self.tags, tag), attrs), 1)
             IN  [base_ref |-> b, calls |-> r.calls, raised |-> r.raised]

(***************************************************************************)
(* The tag events a tokenizer delivers.  Every attribute value is a text   *)
(* or None (an attribute written without a value).                         *)
(***************************************************************************)
Ev(tag, attrs, element_text) == [tag |-> tag, attrs |-> attrs, element_text |-> element_text]

\* a function with the keys of dom whose value is not Absent
Absent == <<"<absent>">>
Attrs(pairs) ==
    LET present == {i \in 1..Len(pairs) : pairs[i][2] # Absent}
    IN  [k \in {pairs[i][1] : i \in present} |->
            (CHOOSE p \in {pairs[i] : i \in present} : p[1] = k)[2]]

BaseEvents ==
    {Ev("base", Attrs(<< <<"href", h>> >>), Empty)
        : h \in {Absent, None, Empty, <<"/","b","1","/">>, <<"/","b","2","/">>}}

AnchorEvents ==
    {Ev("a", Attrs(<< <<"href", <<"/","x">>>>, <<"title", t>> >>), x)
        : t \in {Absent, None, Empty, <<"t">>}, x \in {Empty, <<"t","x","t">>}}
    \cup {Ev("a", Attrs(<< <<"href", <<"/","x">>>>, <<"class", c>> >>), Empty)
        : c \in {None, Empty, <<"n","a","v">>, <<"b","i","g"," "," ","n","a","v">>, <<"n","a","v","x">>}}
    \cup {Ev("a", Attrs(<< <<"name", <<"t","o","p">>>>, <<"id", <<"i">>>> >>), Empty)}

ImgEvents ==
    {Ev("img", Attrs(<< <<"src", <<"/","x">>>>, <<"alt", a>>, <<"title", t>> >>), Empty)
        : a \in {Absent, None, Empty, <<"a","l","t">>}, t \in {Absent, None, <<"t">>}}
    \cup {Ev("img", Attrs(<< <<"src", <<"/","x">>>>, <<"srcset", s>> >>), Empty)
        : s \in {None, Empty, <<"a",".","j","p","g">>, <<"a",".","j","p","g"," ","1","x",","," ","b",".","j","p","g"," ","2","x">>, <<"a",".","j","p","g"," ","1","x",",">>}}

AppletEvents ==
    {Ev("applet", Attrs(<< <<"src", <<"/","x">>>>, <<"codebase", c>> >>), Empty)
        : c \in {Absent, None, Empty, <<"/","c","b","/">>}}
    \cup {Ev("applet", Attrs(<< <<"archive", a>>, <<"codebase", <<"/","c","b","/">>>> >>), Empty)
        : a \in {None, Empty, <<"a",".","j","a","r",",","b",".","j","a","r">>, <<"a",".","j","a","r",",">>}}

MetaEvents ==
    {Ev("meta", Attrs(<< <<"content", c>>, <<"http-equiv", h>>, <<"scheme", s>> >>), Empty)
        : c \in {Empty, <<"h","e","l","l","o">>, <<"5",";","u","r","l","=","/","x">>},
          h \in {Absent, None, <<"r","e","f","r","e","s","h">>, <<"R","e","f","r","e","s","h">>, <<"c","o","n","t","e","n","t","-","t","y","p","e">>},
          s \in {Absent, <<"D","C","T","E","R","M","S",".","U","R","I">>}}
    \cup {Ev("meta", Attrs(<< <<"content", c>>, <<"http-equiv", h>> >>), Empty)
        : c \in {None, <<"0",";"," ","U","R","L","=","/","x">>}, h \in {Absent, <<"r","e","f","r","e","s","h">>}}
    \cup {Ev("meta", Attrs(<< <<"href", u>>, <<"rel", r>> >>), Empty)
        : u \in {<<"/","i",".","i","c","o">>, <<"5",";","u","r","l","=","/","y">>},
          r \in {Absent, None, <<"i","c","o","n">>, <<"S","h","o","r","t","c","u","t"," ","I","c","o","n">>, <<"s","t","y","l","e","s","h","e","e","t">>}}
    \cup {Ev("meta", Attrs(<< <<"name", <<"d","e","s","c","r","i","p","t","i","o","n">>>>, <<"content", <<"h","e","l","l","o">>>>,
                             <<"style", <<"u","r","l","(","a",".","p","n","g",")">>>>, <<"itemtype", <<"/","t">>>> >>), Empty)}

FormEvents ==
    {Ev("form", Attrs(<< <<"action", <<"/","x">>>>, <<"method", m>> >>), Empty)
        : m \in {Absent, None, Empty, <<"p","o","s","t">>, <<"P","O","S","T">>, <<"P","o","s","t">>, <<"g","e","t">>, <<"p","o","s","t","a","l">>}}
    \cup {Ev("form", Attrs(<< <<"action", <<"/","x">>>>, <<"method", m>>,
                             <<"style", <<"u","r","l","(","a",".","p","n","g",")">>>> >>), Empty)
        : m \in {<<"g","e","t">>, <<"p","o","s","t">>}}

LinkEvents ==
    {Ev("link", Attrs(<< <<"rel", r>>, <<"href", h>> >>), Empty)
        : r \in {Absent, <<"d","n","s","-","p","r","e","f","e","t","c","h">>, <<"s","t","y","l","e","s","h","e","e","t">>},
          h \in {None, <<"h","t","t","p","s",":","/","/","c","d","n",".","e","x","a","m","p","l","e",".","c","o","m","/">>, <<"/","/","c","d","n",".","e","x","a","m","p","l","e",".","c","o","m">>, <<"c","d","n",".","e","x","a","m","p","l","e",".","c","o","m","/","/">>}}
    \cup {Ev("link", Attrs(<< <<"rel", <<"d","n","s","-","p","r","e","f","e","t","c","h">>>>, <<"href", <<"/","/","h">>>>,
                             <<"style", <<"u","r","l","(","a",".","p","n","g",")">>>> >>), Empty)}

StyleEvents ==
    {Ev(t, Attrs(<< <<"style", s>> >>), Empty)
        : t \in {"p"},
          s \in {None, Empty, <<"c","o","l","o","r",":"," ","r","e","d">>, <<"u","r","l","("," ","\"","c",".","p","n","g","\""," ",")">>, <<"u","r","l","(","'","a",")">>,
                 <<"b","a","c","k","g","r","o","u","n","d",":"," ","u","r","l","(","'","a",".","p","n","g","'",")",";"," ","c","o","l","o","r",":"," ","r","e","d",";"," ","b","a","c","k","g","r","o","u","n","d","-","i","m","a","g","e",":","u","r","l","(","b",".","p","n","g",")">>}}

OtherEvents ==
    {Ev("script", Attrs(<< <<"src", v>> >>), Empty) : v \in {None, Empty, <<"/","x">>}}
    \cup {Ev("body", Attrs(<< <<"background", <<"/","x">>>>, <<"id", <<"i">>>> >>), Empty),
          Ev("object", Attrs(<< <<"data", <<"/","x">>>>, <<"codebase", <<"/","c","b","/">>>>,
                                <<"usemap", <<"#","m">>>> >>), Empty),
          Ev("go", Attrs(<< <<"href", <<"/","x">>>> >>), Empty),
          Ev("p", Attrs(<< <<"itemtype", <<"/","t">>>>, <<"id", <<"i">>>> >>), Empty),
          Ev("td", Attrs(<< <<"background", <<"/","x">>>>, <<"style", <<"c","o","l","o","r",":"," ","r","e","d">>>> >>), Empty),
          Ev("p", <<>>, Empty)}

TagEvents ==
    BaseEvents \cup AnchorEvents \cup ImgEvents \cup AppletEvents \cup MetaEvents
    \cup FormEvents \cup LinkEvents \cup StyleEvents \cup OtherEvents

(***************************************************************************)
(* The state machines                                                      *)
(***************************************************************************)
\* no LinkFinder event delivered yet
NoEvent == Ev("", <<>>, Empty)

\* LinkFinder.__init__(callback, tags, ignore_classes)
InitLink ==
    /\ tags \in {"LinkTags", "AnchorTags", "WmlTags"}
    /\ ignore_classes \in {{}, {<<"n","a","v">>}}
    /\ tags # "LinkTags" => ignore_classes = {}
    /\ base_ref = Empty
    /\ prev_base_ref = Empty
    /\ base_hrefs = <<>>
    /\ event = NoEvent
    /\ calls = <<>>
    /\ error = ""
    /\ nevents = 0

\* the tokenizer delivers the next tag event to LinkFinder.start_element; an
\* exception ends the parse, so nothing is delivered after one
LinkDeliver ==
    /\ error = ""
    /\ nevents < MaxEvents
    /\ \E e \in TagEvents :
         LET r == StartElement([tags |-> tags, ignore_classes |-> ignore_classes,
                                base_ref |-> base_ref],
                               e.tag, e.attrs, e.element_text, nevents + 1, 1)
         IN  /\ base_ref' = r.base_ref
             /\ calls' = r.calls
             /\ error' = r.raised
             /\ event' = e
             /\ prev_base_ref' = base_ref
             /\ base_hrefs' = IF e.tag = "base"
                              THEN Append(base_hrefs, Get(e.attrs, "href", Empty))
                              ELSE base_hrefs
    /\ nevents' = nevents + 1
    /\ UNCHANGED <<tags, ignore_classes>>
    /\ UNCHANGED robots_vars

Init == InitLink /\ InitRobots

Next == LinkDeliver

Spec == Init /\ [][Next]_vars

NextRobots == RobotsDeliver

\* a document scanned by a MetaRobotsFinder alone: the LinkFinder is not driven
InitRobotsScan == Init /\ tags = "LinkTags" /\ ignore_classes = {}

SpecRobots == InitRobotsScan /\ [][NextRobots]_vars

(***************************************************************************)
(* Properties.  The vocabulary they share:                                 *)
(***************************************************************************)
\* the value of attribute k of the last event, lowercased; empty when the
\* attribute is missing or has no value
LowerAttr(k) ==
    IF k \in DOMAIN event.attrs /\ event.attrs[k] # None THEN Lower(event.attrs[k]) ELSE Empty

\* the callback calls of the last event that came from attribute a
CallsFrom(a) == {i \in 1..Len(calls) : calls[i].attr = a}

\* some base tag delivered so far carries a non-empty href
HasHref(hs) == \E i \in 1..Len(hs) : ~Falsy(hs[i])

\* the href of the first base tag that carries a non-empty one
FirstHref(hs) == hs[CHOOSE i \in 1..Len(hs) : ~Falsy(hs[i]) /\ \A j \in 1..(i - 1) : Falsy(hs[j])]

\* the last event delivered to the MetaRobotsFinder
LastRobotsEvent == doc[Len(doc)]

\* the event is one the robots scan ends at
Qualifies(e) ==
    \/ e.tag = "meta" /\ Get(e.attrs, "name", None) = <<"r","o","b","o","t","s">>
    \/ e.tag = "body"

(***************************************************************************)
(* C1.  As claimed: base_ref is the href of the first base tag of the      *)
(* document (empty when that tag has none), and no later base tag changes  *)
(* it.  Stated for the documents whose base tags have a text href or no    *)
(* href at all, where no value is None.                                    *)
(***************************************************************************)
C1_FirstBaseTag ==
    (base_hrefs # <<>> /\ \A i \in 1..Len(base_hrefs) : base_hrefs[i] # None)
    => base_ref = base_hrefs[1]

\* C1, amended: base_ref is the href of the first base tag whose href is a
\* non-empty text; until such a tag arrives base_ref holds no base (it is
\* empty, or None after a href without value), and once base_ref is
\* non-empty no event changes it.
C1_FirstNonEmptyHref ==
    /\ HasHref(base_hrefs) => base_ref = FirstHref(base_hrefs)
    /\ ~HasHref(base_hrefs) => Falsy(base_ref)
    /\ ~Falsy(prev_base_ref) => base_ref = prev_base_ref

\* a base tag without href, then one with href /b1/, then one with /b2/
C1_Witness ==
    /\ base_hrefs = <<Empty, <<"/","b","1","/">>, <<"/","b","2","/">>>>
    /\ base_ref = <<"/","b","1","/">>

(***************************************************************************)
(* C2.  A robots meta tag's content is split on commas and lowercased;     *)
(* follow is false iff a token is "nofollow", index is false iff a token   *)
(* is "noindex"; content "noindex, nofollow" gives index = follow = FALSE. *)
(***************************************************************************)
C2_RobotsContent ==
    (/\ doc # <<>>
     /\ LastRobotsEvent.tag = "meta"
     /\ Get(LastRobotsEvent.attrs, "name", None) = <<"r","o","b","o","t","s">>
     /\ Get(LastRobotsEvent.attrs, "content", Empty) # None)
    => LET content == Get(LastRobotsEvent.attrs, "content", Empty)
       IN  /\ follow = ~InSeq(<<"n","o","f","o","l","l","o","w">>, Split(Lower(content), ","))
           /\ index = ~InSeq(<<"n","o","i","n","d","e","x">>, Split(Lower(content), ","))
           /\ content = <<"n","o","i","n","d","e","x",","," ","n","o","f","o","l","l","o","w">> => (~index /\ ~follow)

(***************************************************************************)
(* C3.  The robots scan raises StopParse exactly at the first event that   *)
(* is a robots meta tag or a body tag and at no other; when that event is  *)
(* body both flags are still TRUE; the flags change at most once (only a   *)
(* robots meta tag, which ends the scan, changes them).                    *)
(***************************************************************************)
C3_StopAtFirst ==
    /\ \A i \in 1..(Len(doc) - 1) : ~Qualifies(doc[i])
    /\ robots_state = "StopParse" <=> (doc # <<>> /\ Qualifies(LastRobotsEvent))
    /\ robots_state = "running" <=> (doc = <<>> \/ ~Qualifies(LastRobotsEvent))
    /\ (doc # <<>> /\ LastRobotsEvent.tag = "body") => (follow /\ index)
    /\ (doc = <<>> \/ LastRobotsEvent.tag # "meta") => (follow /\ index)

(***************************************************************************)
(* C4.  start_element of the LinkFinder raises nothing for an event whose  *)
(* attribute values are texts or None.                                     *)
(***************************************************************************)
C4_NeverRaises ==
    error = ""

(***************************************************************************)
(* C5.  As claimed: with the table LinkTags, a meta tag emits from content *)
(* only if http-equiv is "refresh" and from href only if rel is "icon" or  *)
(* "shortcut icon" (case-insensitive), and from nothing else.              *)
(***************************************************************************)
C5_MetaOnlyRefreshOrIcon ==
    (tags = "LinkTags" /\ event.tag = "meta") =>
        \A i \in 1..Len(calls) :
            \/ calls[i].attr = "content" /\ LowerAttr("http-equiv") = <<"r","e","f","r","e","s","h">>
            \/ calls[i].attr = "href" /\ LowerAttr("rel") \in {<<"i","c","o","n">>, <<"s","h","o","r","t","c","u","t"," ","i","c","o","n">>}

\* C5, amended: a meta tag emits from content only if http-equiv is
\* "refresh" or scheme is "dcterms.uri", and from href only if rel is "icon"
\* or "shortcut icon" (all case-insensitive), and from nothing else.
C5_MetaRefreshSchemeOrIcon ==
    (tags = "LinkTags" /\ event.tag = "meta") =>
        \A i \in 1..Len(calls) :
            \/ /\ calls[i].attr = "content"
               /\ \/ LowerAttr("http-equiv") = <<"r","e","f","r","e","s","h">>
                  \/ LowerAttr("scheme") = <<"d","c","t","e","r","m","s",".","u","r","i">>
            \/ calls[i].attr = "href" /\ LowerAttr("rel") \in {<<"i","c","o","n">>, <<"s","h","o","r","t","c","u","t"," ","i","c","o","n">>}

\* a meta tag without http-equiv=refresh whose content is a refresh
\* directive and whose scheme is dcterms.uri: the target is emitted
C5_Witness ==
    /\ tags = "LinkTags" /\ event.tag = "meta"
    /\ LowerAttr("http-equiv") # <<"r","e","f","r","e","s","h">>
    /\ LowerAttr("scheme") = <<"d","c","t","e","r","m","s",".","u","r","i">>
    /\ Len(calls) = 1 /\ calls[1].attr = "content" /\ calls[1].url = <<"/","x">>

(***************************************************************************)
(* C6.  A form's action is never emitted when method is "post" in any      *)
(* letter case, and is emitted as exactly one candidate carrying the raw   *)
(* action value when method is missing or any other text.                  *)
(***************************************************************************)
C6_FormAction ==
    (/\ tags = "LinkTags" /\ event.tag = "form"
     /\ "action" \in DOMAIN event.attrs
     /\ Get(event.attrs, "method", Empty) # None)
    => IF LowerAttr("method") = <<"p","o","s","t">>
       THEN CallsFrom("action") = {}
       ELSE /\ Cardinality(CallsFrom("action")) = 1
            /\ \A i \in CallsFrom("action") : calls[i].url = event.attrs["action"]

DnsUrl(href) ==
    CASE href = <<"h","t","t","p","s",":","/","/","c","d","n",".","e","x","a","m","p","l","e",".","c","o","m","/">> -> <<"d","n","s",":","/","/","c","d","n",".","e","x","a","m","p","l","e",".","c","o","m">>
      [] href = <<"/","/","c","d","n",".","e","x","a","m","p","l","e",".","c","o","m">> -> <<"d","n","s",":","/","/","c","d","n",".","e","x","a","m","p","l","e",".","c","o","m">>
      [] href = <<"c","d","n",".","e","x","a","m","p","l","e",".","c","o","m","/","/">> -> <<"d","n","s",":","c","d","n",".","e","x","a","m","p","l","e",".","c","o","m">>
      [] href = <<"/","/","h">> -> <<"d","n","s",":","/","/","h">>

C8_EveryRuleAttrEmits ==
    \A a \in TagAttrs(tags, event.tag) \cap DOMAIN event.attrs :
        \/ CallsFrom(a) # {}
        \/ event.tag = "meta" /\ ~is_meta_url(a, event.attrs).res
        \/ event.tag = "form" /\ ~is_form_get(a, event.attrs).res
        \/ IgnoredClass(ignore_classes, event.tag, event.attrs)
        \/ a = "style" /\ ~Falsy(event.attrs[a]) /\ CssFindIter(event.attrs[a]) = <<>>
        \/ /\ event.tag = "meta" /\ a = "content"
           /\ ~Falsy(event.attrs[a]) /\ RefreshMatch(event.attrs[a]) = None

\* what does hold: the statement above for the events start_element returns from
C8_Probe == error = "" => C8_EveryRuleAttrEmits

(***************************************************************************)
(* C9.  As claimed: the name of a call is, for a/href, the title attribute *)
(* if present else empty, whatever the element text; for img, alt if       *)
(* present, else title, else empty; empty for everything else.             *)
(***************************************************************************)
C9_NameFromTitleOnly ==
    \A i \in 1..Len(calls) :
        calls[i].name =
            IF event.tag = "a" /\ calls[i].attr = "href"
            THEN Get(event.attrs, "title", Empty)
            ELSE IF event.tag = "img"
            THEN (IF "alt" \in DOMAIN event.attrs
                  THEN event.attrs["alt"]
                  ELSE Get(event.attrs, "title", Empty))
            ELSE Empty

\* C9, amended: for a/href the name is the event's element text when that
\* is non-empty, otherwise the title attribute if present, otherwise empty;
\* for img it is alt when alt is a non-empty text, otherwise title if
\* present, otherwise empty; it is empty for everything else.
C9_NameFromTextThenTitle ==
    \A i \in 1..Len(calls) :
        calls[i].name =
            IF event.tag = "a" /\ calls[i].attr = "href"
            THEN (IF event.element_text # Empty
                  THEN event.element_text
                  ELSE Get(event.attrs, "title", Empty))
            ELSE IF event.tag = "img"
            THEN (IF "alt" \in DOMAIN event.attrs /\ ~Falsy(event.attrs["alt"])
                  THEN event.attrs["alt"]
                  ELSE Get(event.attrs, "title", Empty))
            ELSE Empty

\* an anchor with a title and a non-empty element text: the text is the name
C9_Witness ==
    /\ event.tag = "a"
    /\ Get(event.attrs, "title", None) = <<"t">>
    /\ event.element_text = <<"t","x","t">>
    /\ Len(calls) = 1 /\ calls[1].attr = "href" /\ calls[1].name = <<"t","x","t">>

(***************************************************************************)
(* C10.  As claimed: the base of a call is the applet's codebase whenever  *)
(* the tag carries one (an empty one included), and otherwise the href of  *)
(* the first base tag delivered so far (empty when there was none).        *)
(* Stated for the documents with at most one base tag and for a codebase   *)
(* that is a text, where "the first base tag" (C1) and None play no part.  *)
(***************************************************************************)
C10_BaseCodebaseWhenPresent ==
    (Len(base_hrefs) <= 1 /\ Get(event.attrs, "codebase", Empty) # None) =>
        \A i \in 1..Len(calls) :
            calls[i].base =
                IF event.tag = "applet" /\ "codebase" \in DOMAIN event.attrs
                THEN event.attrs["codebase"]
                ELSE IF base_hrefs = <<>> THEN Empty ELSE base_hrefs[1]

\* C10, amended: the base of a call is the applet's codebase when that is a
\* non-empty text, and otherwise base_ref as it stands while the event is
\* processed: empty until a base tag with a non-empty href has been
\* delivered, that tag's href for that event and every later one; the url
\* of a plain attribute is handed on as written, never joined with the base.
C10_BaseCodebaseWhenNonEmpty ==
    \A i \in 1..Len(calls) :
        /\ calls[i].base =
               IF event.tag = "applet" /\ ~Falsy(Get(event.attrs, "codebase", Empty))
               THEN event.attrs["codebase"]
               ELSE base_ref
        /\ (event.tag # "applet" \/ Falsy(Get(event.attrs, "codebase", Empty)))
              => calls[i].base =
                    IF HasHref(base_hrefs) THEN FirstHref(base_hrefs) ELSE Empty
        /\ (event.tag \in {"applet", "script", "a", "img"} /\ calls[i].attr \in {"src", "href"})
              => calls[i].url = event.attrs[calls[i].attr]

\* an applet with an empty codebase after <base href="/b1/">
C10_Witness ==
    /\ event.tag = "applet"
    /\ Get(event.attrs, "codebase", None) = Empty
    /\ base_ref = <<"/","b","1","/">>
    /\ Len(calls) = 1 /\ calls[1].base = <<"/","b","1","/">> /\ calls[1].url = <<"/","x">>

=============================================================================
